---- MODULE Spec2Model ----
(***************************************************************************)
(* TaskFlow (src/script.js): a client-side to-do list.  One in-memory     *)
(* array `tasks`, mirrored into localStorage under the key 'tasks' and    *)
(* re-rendered in full after every mutation.  Every handler runs to       *)
(* completion (single-threaded event loop); the 150 ms counter-animation  *)
(* callbacks of animateCountChange run between handlers.                  *)
(*                                                                         *)
(* trim(), .length, substring() and escapeHtml() are computed character   *)
(* by character on the strings themselves.                                 *)
(***************************************************************************)
EXTENDS Integers, Sequences, FiniteSets, TLC

VARIABLES phase, storage, tasks, clock, dom, timers, last, hist

vars == <<phase, storage, tasks, clock, dom, timers, last, hist>>

(***************************************************************************)
(* Bounds of the exploration.                                              *)
(***************************************************************************)
MaxTasks == 2
MaxClock == 4
MaxFailedWrites == 1
MaxPendingTimers == 1

(***************************************************************************)
(* Program constants.                                                      *)
(***************************************************************************)
MaxTextLength == 150
PreviewLength == 30

(***************************************************************************)
(* Strings.                                                                *)
(***************************************************************************)
RECURSIVE Repeat(_, _)
\* the string of n copies of the character c
Repeat(c, n) ==
    IF n = 0 THEN ""
    ELSE IF n = 1 THEN c
    ELSE Repeat(c, n \div 2) \o Repeat(c, n - (n \div 2))

\* the i-th character of s
charAt(s, i) == SubSeq(s, i, i)

Whitespace == {" ", "\t", "\n"}

RECURSIVE firstSolid(_, _)
\* index of the first character at or after i that is not whitespace
firstSolid(s, i) ==
    IF i <= Len(s) /\ charAt(s, i) \in Whitespace THEN firstSolid(s, i + 1) ELSE i

RECURSIVE lastSolid(_, _)
\* index of the last character at or before i that is not whitespace
lastSolid(s, i) ==
    IF i >= 1 /\ charAt(s, i) \in Whitespace THEN lastSolid(s, i - 1) ELSE i

\* a trim that was left out
untrimmed(s) == s

\* String.prototype.trim: drops the leading and trailing whitespace
trim(s) == SubSeq(s, firstSolid(s, 1), lastSolid(s, Len(s)))

\* String.prototype.substring(0, n)
substring(s, n) == SubSeq(s, 1, IF Len(s) < n THEN Len(s) ELSE n)

htmlEscapeMap(c) ==
    CASE c = "&" -> "&amp;"
      [] c = "<" -> "&lt;"
      [] c = ">" -> "&gt;"
      [] c = "\"" -> "&quot;"
      [] c = "'" -> "&#039;"
      [] OTHER -> c

RECURSIVE escapeHtml(_)
\* text.replace(/[&<>"']/g, c => htmlEscapeMap[c]), evaluated by halves
escapeHtml(text) ==
    IF text = "" THEN ""
    ELSE IF Len(text) = 1 THEN htmlEscapeMap(text)
    ELSE LET half == Len(text) \div 2
         IN  escapeHtml(SubSeq(text, 1, half)) \o escapeHtml(SubSeq(text, half + 1, Len(text)))

(***************************************************************************)
(* Task records and their JSON form.  A serialized task is the list of    *)
(* its key/value members in property order; a document is the list of     *)
(* serialized tasks together with the indent it was printed with.         *)
(***************************************************************************)
\* new Date().toLocaleString() at wall-clock time t
toLocaleString(t) == "locale:" \o ToString(t)

\* new Date().toISOString().split('T')[0] at wall-clock time t
isoDate(t) == "iso:" \o ToString(t)

newTask(t, text) ==
    [id |-> t, text |-> text, completed |-> FALSE, createdAt |-> toLocaleString(t)]

stringifyTask(task) ==
    << <<"id", task.id>>, <<"text", task.text>>,
       <<"completed", task.completed>>, <<"createdAt", task.createdAt>> >>

\* JSON.stringify(tasks, null, indent)
stringify(ts, indent) ==
    [kind |-> "json", indent |-> indent,
     items |-> [i \in 1..Len(ts) |-> stringifyTask(ts[i])]]

parseTask(obj) ==
    [id |-> obj[1][2], text |-> obj[2][2], completed |-> obj[3][2], createdAt |-> obj[4][2]]

\* JSON.parse of a document that holds an array of tasks
parse(doc) == [i \in 1..Len(doc.items) |-> parseTask(doc.items[i])]

Absent == [kind |-> "absent", indent |-> 0, items |-> <<>>]
Corrupt == [kind |-> "corrupt", indent |-> 0, items |-> <<>>]


(***************************************************************************)
(* Inputs.                                                                 *)
(***************************************************************************)
BuyMilk == "Buy milk"
Markup == "<b>&\"'"

\* what the user may have typed into the text field
Inputs ==
    { "",
      " \t",
      BuyMilk,
      " " \o Repeat("x", MaxTextLength) \o "\n ",
      " " \o Repeat("x", MaxTextLength + 1) }

FirstClock == 3

\* 0 is never a task's id
AbsentId == 0

\* lists an earlier session can have left in storage
StoredTwo == <<newTask(1, "a"), [newTask(2, Markup) EXCEPT !.completed = TRUE]>>

InitialStorage ==
    {Absent, Corrupt, stringify(StoredTwo, 0)}

(***************************************************************************)
(* Notifications, downloads and the record of the most recent handler.    *)
(***************************************************************************)
\* showNotification(message, type = 'info', duration = 3000): the element
\* appended to the document body
showNotification(message, detail, type, duration) ==
    [type |-> type, message |-> message, detail |-> detail, duration |-> duration]

NoDownload == [name |-> "", mime |-> "", doc |-> Absent]

\* What the most recent handler was given and what it did: `pre` and
\* `preStorage` are the list and the stored value when it started, `notes`
\* the notifications it showed, `download` the file it offered and
\* `inputValue` what it left in the text field.  `twice` says that it is a
\* toggle that directly follows a toggle of the same id, and `origin` is
\* then the list before that earlier toggle.
NoOp ==
    [op |-> "none", text |-> "", id |-> 0, confirmed |-> FALSE,
     pre |-> <<>>, preStorage |-> Absent, persisted |-> "none",
     rendered |-> FALSE, shake |-> FALSE, inputValue |-> "", notes |-> <<>>,
     download |-> NoDownload, twice |-> FALSE, origin |-> <<>>]

Ran(op, text, id, confirmed) ==
    LET again == op = "toggle" /\ last.op = "toggle" /\ last.id = id
    IN  [NoOp EXCEPT !.op = op, !.text = text, !.inputValue = text, !.id = id,
                     !.confirmed = confirmed, !.pre = tasks, !.preStorage = storage,
                     !.twice = again, !.origin = IF again THEN last.pre ELSE <<>>]

(***************************************************************************)
(* Persistence.                                                            *)
(***************************************************************************)
\* a persistTasks whose catch block only logs to the console
persistTasksSilently(ts, ok) ==
    [storage |-> IF ok THEN stringify(ts, 0) ELSE storage,
     persisted |-> IF ok THEN "ok" ELSE "failed",
     failed |-> IF ok THEN 0 ELSE hist.failed + 1,
     notes |-> <<>>]

\* a persistTasks that runs before the handler has changed the list
persistTasksBeforeChange(ts, ok) ==
    [storage |-> IF ok THEN stringify(tasks, 0) ELSE storage,
     persisted |-> IF ok THEN "ok" ELSE "failed",
     failed |-> IF ok THEN 0 ELSE hist.failed + 1,
     notes |-> IF ok THEN <<>>
               ELSE <<showNotification("save-failed", "", "error", 3000)>>]

\* persistTasks(): localStorage.setItem either stores the serialized list
\* or throws (quota); the catch block reports the failure.
persistTasks(ts, ok) ==
    [storage |-> IF ok THEN stringify(ts, 0) ELSE storage,
     persisted |-> IF ok THEN "ok" ELSE "failed",
     failed |-> IF ok THEN 0 ELSE hist.failed + 1,
     notes |-> IF ok THEN <<>>
               ELSE <<showNotification("save-failed", "", "error", 3000)>>]

(***************************************************************************)
(* Rendering and statistics.                                               *)
(***************************************************************************)
\* escapeHtml, tabulated over the texts a task can carry
TaskTexts == {trim(raw) : raw \in Inputs} \cup {StoredTwo[i].text : i \in 1..Len(StoredTwo)}

escaped == [text \in TaskTexts |-> escapeHtml(text)]

\* a row whose checkbox is never checked
createUncheckedElement(task) ==
    [id |-> task.id,
     className |-> IF task.completed THEN "task-item completed" ELSE "task-item ",
     checked |-> FALSE,
     html |-> escaped[task.text]]

createTaskElement(task) ==
    [id |-> task.id,
     className |-> IF task.completed THEN "task-item completed" ELSE "task-item ",
     checked |-> task.completed,
     html |-> escaped[task.text]]

\* a filter that keeps the pending tasks instead
filterPending(ts) == SelectSeq(ts, LAMBDA task : ~task.completed)

RECURSIVE filterCompleted(_)
\* tasks.filter(task => task.completed)
filterCompleted(ts) ==
    IF ts = <<>> THEN <<>>
    ELSE IF Head(ts).completed THEN <<Head(ts)>> \o filterCompleted(Tail(ts))
    ELSE filterCompleted(Tail(ts))

\* the three counts of updateStatistics()
statistics(ts) ==
    LET totalCount == Len(ts)
        completedCount == Len(filterCompleted(ts))
        pendingCount == totalCount - completedCount
    IN  [total |-> totalCount, completed |-> completedCount, pending |-> pendingCount]

\* animateCountChange(element, oldValue, newValue): schedules the 150 ms
\* callback that writes newValue, only when the texts differ
animateCountChange(tm, element, oldValue, newValue) ==
    IF oldValue # newValue
    THEN Append(tm, [element |-> element, text |-> newValue])
    ELSE tm

updateStatistics(ts, d, tm) ==
    LET st == statistics(ts)
        t1 == animateCountChange(tm, "total", d.total, ToString(st.total))
        t2 == animateCountChange(t1, "completed", d.completed, ToString(st.completed))
    IN  animateCountChange(t2, "pending", d.pending, ToString(st.pending))

\* a render that does not clear the list element first
renderWithoutClearing(ts, d, tm) ==
    [dom |-> [d EXCEPT !.rows = d.rows \o [i \in 1..Len(ts) |-> createTaskElement(ts[i])],
                       !.emptyState = IF Len(ts) = 0 THEN "block" ELSE "none",
                       !.tasksListContainer = IF Len(ts) = 0 THEN "none" ELSE "block"],
     timers |-> updateStatistics(ts, d, tm)]

\* renderAllTasks(): the new DOM and the new timer queue
renderAllTasks(ts, d, tm) ==
    [dom |-> [d EXCEPT !.rows = [i \in 1..Len(ts) |-> createTaskElement(ts[i])],
                       !.emptyState = IF Len(ts) = 0 THEN "block" ELSE "none",
                       !.tasksListContainer = IF Len(ts) = 0 THEN "none" ELSE "block"],
     timers |-> updateStatistics(ts, d, tm)]

(***************************************************************************)
(* The page before the script runs.  The markup is not part of the        *)
(* script: the counters are taken to read "0" and the two containers to   *)
(* carry no inline display.                                                *)
(***************************************************************************)
Init ==
    /\ phase = "loading"
    /\ storage \in InitialStorage
    /\ tasks = <<>>
    /\ clock = FirstClock
    /\ dom = [rows |-> <<>>, emptyState |-> "", tasksListContainer |-> "",
              total |-> "0", completed |-> "0", pending |-> "0"]
    /\ timers = <<>>
    /\ last = NoOp
    /\ hist = [expected |-> 0, failed |-> 0]

(***************************************************************************)
(* Script evaluation, top to bottom: line 10 loads the list, lines 47-69  *)
(* wire the listeners, line 378 renders.  JSON.parse throws on a value    *)
(* that is not JSON, which ends the script at line 10: `tasks` and        *)
(* `domElements` stay uninitialized and no listener is registered.        *)
(***************************************************************************)
\* JSON.parse(localStorage.getItem('tasks')) || []
loadTasks(stored) ==
    IF stored.kind = "json" THEN parse(stored) ELSE <<>>

Startup ==
    /\ phase = "loading"
    /\ IF storage.kind = "corrupt"
       THEN /\ phase' = "aborted"
            /\ UNCHANGED <<tasks, dom, timers, hist>>
       ELSE LET loaded == loadTasks(storage)
                r == renderAllTasks(loaded, dom, timers)
            IN  /\ phase' = "ready"
                /\ tasks' = loaded
                /\ dom' = r.dom
                /\ timers' = r.timers
                /\ hist' = [hist EXCEPT !.expected = Len(loaded)]
    /\ UNCHANGED <<storage, clock, last>>

\* the oldest pending 150 ms callback of animateCountChange fires
TimerFire ==
    /\ timers # <<>>
    /\ dom' = [dom EXCEPT ![Head(timers).element] = Head(timers).text]
    /\ timers' = Tail(timers)
    /\ UNCHANGED <<phase, storage, tasks, clock, last, hist>>

RECURSIVE fireAll(_, _)
\* the DOM once every callback of the queue tm has fired, oldest first
fireAll(d, tm) ==
    IF tm = <<>> THEN d
    ELSE fireAll([d EXCEPT ![Head(tm).element] = Head(tm).text], Tail(tm))

(***************************************************************************)
(* handleAddTask.  `raw` is the content of the text field, `now` the      *)
(* reading of Date.now(), `ok` whether localStorage.setItem returns.      *)
(***************************************************************************)
\* a limit that also turns away a text of exactly MaxTextLength characters
tooLongInclusive(taskText) == Len(taskText) >= MaxTextLength

\* a length check that was left out
anyLength(taskText) == FALSE

\* taskText.length > 150
tooLong(taskText) == Len(taskText) > MaxTextLength

\* a push that puts the new task in front
unshift(ts, task) == <<task>> \o ts

\* tasks.push(newTask)
push(ts, task) == Append(ts, task)

handleAddTask(raw, now, ok) ==
    LET taskText == trim(raw)
        ran == Ran("add", raw, 0, FALSE)
    IN
    /\ phase = "ready"
    /\ IF taskText = ""
       THEN /\ last' = [ran EXCEPT !.shake = TRUE,
                          !.notes = <<showNotification("enter-a-task", "", "warning", 3000)>>]
            /\ UNCHANGED <<storage, tasks, clock, dom, timers, hist>>
       ELSE IF tooLong(taskText)
       THEN /\ last' = [ran EXCEPT
                          !.notes = <<showNotification("too-long", "", "warning", 3000)>>]
            /\ UNCHANGED <<storage, tasks, clock, dom, timers, hist>>
       ELSE LET pushed == push(tasks, newTask(now, taskText))
                p == persistTasks(pushed, ok)
                r == renderAllTasks(pushed, dom, timers)
            IN  /\ Len(tasks) < MaxTasks
                /\ hist.expected < MaxTasks
                /\ clock' = now
                /\ tasks' = pushed
                /\ storage' = p.storage
                /\ dom' = r.dom
                /\ timers' = r.timers
                /\ hist' = [expected |-> hist.expected + 1, failed |-> p.failed]
                /\ last' = [ran EXCEPT
                      !.persisted = p.persisted, !.rendered = TRUE, !.inputValue = "",
                      !.notes = p.notes \o
                          <<showNotification("added",
                                substring(taskText, PreviewLength) \o "...",
                                "success", 3000)>>]
    /\ UNCHANGED phase

(***************************************************************************)
(* handleDeleteTask.  `confirmed` is the answer to the confirm() prompt.  *)
(***************************************************************************)
\* index of the element tasks.find(t => t.id === taskId) returns, 0 if none
findIndex(ts, taskId) ==
    IF \E i \in 1..Len(ts) : ts[i].id = taskId
    THEN CHOOSE i \in 1..Len(ts) :
            /\ ts[i].id = taskId
            /\ \A j \in 1..(i - 1) : ts[j].id # taskId
    ELSE 0

RECURSIVE filterOut(_, _)
\* tasks.filter(task => task.id !== taskId)
filterOut(ts, taskId) ==
    IF ts = <<>> THEN <<>>
    ELSE IF Head(ts).id # taskId THEN <<Head(ts)>> \o filterOut(Tail(ts), taskId)
    ELSE filterOut(Tail(ts), taskId)

\* a prompt that is answered for the user
confirmAlways(answer) == TRUE

\* confirm(...): the user's answer to the blocking prompt
confirm(answer) == answer

handleDeleteTask(taskId, confirmed, ok) ==
    LET ran == Ran("delete", "", taskId, confirmed)
    IN
    /\ phase = "ready"
    /\ IF ~confirm(confirmed)
       THEN /\ last' = ran
            /\ UNCHANGED <<storage, tasks, dom, timers, hist>>
       ELSE LET kept == filterOut(tasks, taskId)
                p == persistTasks(kept, ok)
                r == renderAllTasks(kept, dom, timers)
            IN  /\ tasks' = kept
                /\ storage' = p.storage
                /\ dom' = r.dom
                /\ timers' = r.timers
                /\ hist' = [expected |-> IF findIndex(tasks, taskId) # 0
                                           THEN hist.expected - 1
                                           ELSE hist.expected,
                             failed |-> p.failed]
                /\ last' = [ran EXCEPT
                      !.persisted = p.persisted, !.rendered = TRUE,
                      !.notes = p.notes \o
                          <<showNotification("deleted", "", "success", 2000)>>]
    /\ UNCHANGED <<phase, clock>>

(***************************************************************************)
(* handleToggleComplete.  Which of the five emojis Math.random() picks    *)
(* for the celebration message is not modelled.                           *)
(***************************************************************************)
\* a toggle that can only complete a task
markCompleted(ts, i) == [ts EXCEPT ![i].completed = TRUE]

\* a toggle that flips every task of the list
toggledAll(ts, i) == [j \in 1..Len(ts) |-> [ts[j] EXCEPT !.completed = ~ts[j].completed]]

\* task.completed = !task.completed, on the i-th task
toggled(ts, i) == [ts EXCEPT ![i].completed = ~ts[i].completed]

handleToggleComplete(taskId, ok) ==
    LET ran == Ran("toggle", "", taskId, FALSE)
        i == findIndex(tasks, taskId)
    IN
    /\ phase = "ready"
    /\ IF i = 0
       THEN /\ last' = ran
            /\ UNCHANGED <<storage, tasks, dom, timers, hist>>
       ELSE LET wasCompleted == tasks[i].completed
                flipped == toggled(tasks, i)
                p == persistTasks(flipped, ok)
                r == renderAllTasks(flipped, dom, timers)
            IN  /\ tasks' = flipped
                /\ storage' = p.storage
                /\ dom' = r.dom
                /\ timers' = r.timers
                /\ hist' = [hist EXCEPT !.failed = p.failed]
                /\ last' = [ran EXCEPT
                      !.persisted = p.persisted, !.rendered = TRUE,
                      !.notes = p.notes \o
                          <<IF ~wasCompleted
                            THEN showNotification("great-job", "", "success", 2000)
                            ELSE showNotification("marked-incomplete", "", "info", 1500)>>]
    /\ UNCHANGED <<phase, clock>>

(***************************************************************************)
(* handleExportTasks.  `outcome` says whether the try block runs through  *)
(* or one of its platform calls throws before the download starts.        *)
(***************************************************************************)
ExportOutcomes == {"done", "throws"}

\* an emptiness check that was left out
neverEmpty(ts) == FALSE

\* tasks.length === 0
noTasks(ts) == Len(ts) = 0

\* an export that writes only the completed tasks
exportCompletedOnly(ts, t) ==
    [name |-> "tasks-" \o isoDate(t) \o ".json",
     mime |-> "application/json",
     doc |-> stringify(filterCompleted(ts), 2)]

exportFile(ts, t) ==
    [name |-> "tasks-" \o isoDate(t) \o ".json",
     mime |-> "application/json",
     doc |-> stringify(ts, 2)]

handleExportTasks(outcome) ==
    LET ran == Ran("export", "", 0, FALSE)
    IN
    /\ phase = "ready"
    /\ IF noTasks(tasks)
       THEN last' = [ran EXCEPT
                !.notes = <<showNotification("no-tasks", "", "warning", 3000)>>]
       ELSE last' = [ran EXCEPT
                !.download = IF outcome = "throws"
                             THEN NoDownload
                             ELSE exportFile(tasks, clock),
                !.notes = IF outcome = "done"
                          THEN <<showNotification("exported",
                                    ToString(Len(tasks)) \o
                                      (IF Len(tasks) # 1 THEN " tasks" ELSE " task"),
                                    "success", 3000)>>
                          ELSE <<showNotification("export-failed", "", "error", 3000)>>]
    /\ UNCHANGED <<phase, storage, tasks, clock, dom, timers, hist>>

(***************************************************************************)
(* The program and its environment.                                        *)
(***************************************************************************)
\* ids a toggle or a delete may be called with: those the rendered rows
\* carry in their onchange/onclick attributes, and one that no task has
TaskIds == {dom.rows[i].id : i \in 1..Len(dom.rows)} \cup {AbsentId}

\* localStorage.setItem returns (TRUE) or throws (FALSE); at most
\* MaxFailedWrites writes in a row throw
WriteOutcomes == IF hist.failed < MaxFailedWrites THEN BOOLEAN ELSE {TRUE}

\* Date.now() when a task is created: the millisecond of the previous
\* reading, or a later one
DateNow == {t \in {clock, clock + 1} : t <= MaxClock}

\* The user acts once the counters have settled.
Settled == timers = <<>>

Next ==
    \/ Startup
    \/ TimerFire
    \/ \E raw \in Inputs, now \in DateNow, ok \in WriteOutcomes :
          Settled /\ handleAddTask(raw, now, ok)
    \/ \E taskId \in TaskIds, confirmed \in BOOLEAN, ok \in WriteOutcomes :
          Settled /\ handleDeleteTask(taskId, confirmed, ok)
    \/ \E taskId \in TaskIds, ok \in WriteOutcomes :
          Settled /\ handleToggleComplete(taskId, ok)
    \/ \E outcome \in ExportOutcomes :
          Settled /\ handleExportTasks(outcome)

Spec == Init /\ [][Next]_vars

\* The user may also act while callbacks of an earlier render are pending;
\* every storage write returns.
MayAct == Len(timers) <= MaxPendingTimers

NextRace ==
    \/ Startup
    \/ TimerFire
    \/ \E raw \in Inputs, now \in DateNow : MayAct /\ handleAddTask(raw, now, TRUE)
    \/ \E taskId \in TaskIds, confirmed \in BOOLEAN :
          MayAct /\ handleDeleteTask(taskId, confirmed, TRUE)
    \/ \E taskId \in TaskIds : MayAct /\ handleToggleComplete(taskId, TRUE)
    \/ \E outcome \in ExportOutcomes : MayAct /\ handleExportTasks(outcome)

SpecRace == Init /\ [][NextRace]_vars

TypeOK ==
    /\ phase \in {"loading", "ready", "aborted"}
    /\ clock \in FirstClock..MaxClock
    /\ Len(tasks) <= MaxTasks
    /\ hist.failed <= MaxFailedWrites

(***************************************************************************)
(* Properties.                                                             *)
(***************************************************************************)
onlyWhitespace(s) == \A i \in 1..Len(s) : charAt(s, i) \in Whitespace

\* the last handler was an add that got past both validations
Accepted ==
    /\ last.op = "add"
    /\ ~onlyWhitespace(last.text)
    /\ Len(trim(last.text)) <= 150

\* C1: the list is as long as the loaded list, plus the successful adds,
\* minus the confirmed deletes of an id that was in the list.
C1_LengthIsLoadedPlusAddsMinusDeletes ==
    phase = "ready" => Len(tasks) = hist.expected

\* C2: no two tasks of the list share an id.
C2_IdsPairwiseDistinct ==
    \A i, j \in 1..Len(tasks) : i # j => tasks[i].id # tasks[j].id

\* C3: an add of an empty or whitespace-only text leaves the list and the
\* stored value as they were, shows one warning, and neither persists nor
\* renders.
C3_BlankAddRejected ==
    (last.op = "add" /\ onlyWhitespace(last.text)) =>
        /\ tasks = last.pre
        /\ storage = last.preStorage
        /\ Len(last.notes) = 1
        /\ last.notes[1].type = "warning"
        /\ last.persisted = "none"
        /\ ~last.rendered

C3_Witness ==
    /\ last.op = "add"
    /\ last.text = " \t"
    /\ last.pre # <<>>
    /\ last.preStorage.kind = "json"

\* C4: a trimmed text of exactly 150 characters is added; one of 151 or
\* more is refused with a warning, the list and the stored value unchanged.
C4_LengthLimitInclusive ==
    last.op = "add" =>
        /\ Len(trim(last.text)) = 150 =>
              /\ Len(tasks) = Len(last.pre) + 1
              /\ tasks[Len(tasks)].text = trim(last.text)
        /\ Len(trim(last.text)) >= 151 =>
              /\ tasks = last.pre
              /\ storage = last.preStorage
              /\ Len(last.notes) = 1
              /\ last.notes[1].type = "warning"

\* a text of 151 characters has just been refused, after one of 150
\* characters was added
C4_Witness ==
    /\ last.op = "add"
    /\ Len(trim(last.text)) = 151
    /\ \E i \in 1..Len(tasks) : Len(tasks[i].text) = 150

\* C5: a successful add appends one task, with the trimmed text and not
\* completed, behind the unchanged earlier tasks, and persists the list;
\* and adding "Buy milk" to an empty list, then toggling that task, gives
\* one completed task and the statistics 1, 1, 0.
C5_AddAppends ==
    /\ Accepted =>
          /\ Len(tasks) = Len(last.pre) + 1
          /\ SubSeq(tasks, 1, Len(last.pre)) = last.pre
          /\ tasks[Len(tasks)].text = trim(last.text)
          /\ tasks[Len(tasks)].completed = FALSE
          /\ last.persisted # "none"
          /\ last.persisted = "ok" => storage.kind = "json" /\ parse(storage) = tasks
    /\ ( /\ last.op = "toggle"
         /\ Len(last.pre) = 1
         /\ last.pre[1].text = "Buy milk"
         /\ ~last.pre[1].completed
         /\ last.pre[1].id = last.id ) =>
          /\ tasks = <<[last.pre[1] EXCEPT !.completed = TRUE]>>
          /\ statistics(tasks) = [total |-> 1, completed |-> 1, pending |-> 0]

\* an add of a padded text to a list that already holds a task
C5_Witness ==
    /\ Accepted
    /\ last.text # trim(last.text)
    /\ last.pre # <<>>
    /\ last.persisted = "ok"

\* the scenario of C5 has run: "Buy milk" added to the empty list, then toggled
C5_Scenario ==
    /\ last.op = "toggle"
    /\ last.pre = <<newTask(last.id, "Buy milk")>>
    /\ hist.expected = 1

\* C6: a toggle that directly follows a toggle of the same id puts the
\* whole list back to what it was before the first of the two.
C6_ToggleTwiceRestores ==
    (last.op = "toggle" /\ last.twice) => tasks = last.origin

\* the second of two toggles of a task of the list has run
C6_Witness ==
    /\ last.op = "toggle"
    /\ last.twice
    /\ last.pre # tasks
    /\ Len(tasks) = 2

\* C7: a delete of an id that is not in the list leaves the list and the
\* stored value as they were.
C7_DeleteAbsentIsNoOp ==
    (last.op = "delete" /\ \A i \in 1..Len(last.pre) : last.pre[i].id # last.id) =>
        /\ tasks = last.pre
        /\ storage = last.preStorage

\* C8: pending + completed = total, total is the length of the list and
\* completed the number of its completed tasks.
C8_StatisticsAddUp ==
    LET st == statistics(tasks)
    IN  /\ st.pending + st.completed = st.total
        /\ st.total = Len(tasks)
        /\ st.completed = Cardinality({i \in 1..Len(tasks) : tasks[i].completed})
        /\ st.pending = Cardinality({i \in 1..Len(tasks) : ~tasks[i].completed})

\* a rendered list with one completed and one pending task
C8_Witness ==
    /\ last.rendered
    /\ Len(tasks) = 2
    /\ tasks[1].completed
    /\ ~tasks[2].completed

\* C9: once the script has run, the list is the stored list when the key
\* held one and empty when the key was absent or held something that does
\* not parse, and the script has reached its initial render.
C9_StartupLoads ==
    (phase # "loading" /\ last.op = "none") =>
        /\ phase = "ready"
        /\ tasks = IF storage.kind = "json" THEN parse(storage) ELSE <<>>
        /\ Len(dom.rows) = Len(tasks)
        /\ dom.emptyState = IF tasks = <<>> THEN "block" ELSE "none"

\* C10: when the storage write of an add, delete or toggle throws, an error
\* notification is shown, the list keeps the change, the stored value is
\* the one from before, the rows are rendered from the changed list and
\* the page stays ready for the next gesture.
C10_FailedWriteKeepsMutation ==
    last.persisted = "failed" =>
        /\ \E k \in 1..Len(last.notes) : last.notes[k].type = "error"
        /\ storage = last.preStorage
        /\ last.op = "add" =>
              /\ Len(tasks) = Len(last.pre) + 1
              /\ SubSeq(tasks, 1, Len(last.pre)) = last.pre
              /\ tasks[Len(tasks)].text = trim(last.text)
        /\ last.op = "delete" =>
              /\ tasks = SelectSeq(last.pre, LAMBDA task : task.id # last.id)
        /\ last.op = "toggle" =>
              /\ Len(tasks) = Len(last.pre)
              /\ \E i \in 1..Len(tasks) :
                    /\ tasks[i].id = last.id
                    /\ tasks[i].completed = ~last.pre[i].completed
                    /\ \A j \in 1..Len(tasks) : j # i => tasks[j] = last.pre[j]
        /\ last.op \in {"add", "delete", "toggle"}
        /\ last.rendered
        /\ Len(dom.rows) = Len(tasks)
        /\ \A i \in 1..Len(tasks) :
              /\ dom.rows[i].id = tasks[i].id
              /\ dom.rows[i].checked = tasks[i].completed
        /\ phase = "ready"
        /\ ENABLED handleToggleComplete(AbsentId, TRUE)

\* a toggle whose write threw: the list and the stored value now differ
C10_Witness ==
    /\ last.persisted = "failed"
    /\ last.op = "toggle"
    /\ last.preStorage.kind = "json"
    /\ parse(storage) # tasks

\* C11: after every handler whose storage write succeeded, the stored value
\* is the serialization of the whole current list and loading it gives that
\* list back; the stored list and the list in memory differ only while the
\* most recent write is a failed one.
C11_StorageMirrorsMemory ==
    /\ last.persisted = "ok" =>
          /\ storage = stringify(tasks, 0)
          /\ Len(storage.items) = Len(tasks)
          /\ loadTasks(storage) = tasks
    /\ (phase = "ready" /\ loadTasks(storage) # tasks) => hist.failed > 0

\* a write has succeeded after an earlier one had failed and left the
\* stored list behind the list in memory
C11_Witness ==
    /\ last.persisted = "ok"
    /\ last.preStorage.kind = "json"
    /\ parse(last.preStorage) # last.pre
    /\ tasks # <<>>
    /\ tasks # last.pre

\* C12: an export of an empty list offers no download and shows one
\* notification; no export, whatever the list and whether or not it runs
\* through, changes the list or the stored value.
C12_ExportLeavesState ==
    last.op = "export" =>
        /\ tasks = last.pre
        /\ storage = last.preStorage
        /\ last.persisted = "none"
        /\ last.pre = <<>> =>
              /\ last.download = NoDownload
              /\ Len(last.notes) = 1
              /\ last.notes[1].type = "warning"

\* an export of a list that was emptied by deletes, the stored value
\* being the empty array
C12_Witness ==
    /\ last.op = "export"
    /\ last.pre = <<>>
    /\ storage.kind = "json"

\* C13: an export of a non-empty list that runs through offers a document
\* that is an array as long as the list, whose elements carry, in order,
\* the id, text, completed and createdAt of the tasks; parsing it gives
\* the list.
C13_ExportRoundTrips ==
    (last.op = "export" /\ last.pre # <<>>) =>
        LET doc == last.download.doc
        IN  /\ last.notes[1].type = "success" => last.download # NoDownload
            /\ last.download # NoDownload =>
                  /\ doc.kind = "json"
                  /\ Len(doc.items) = Len(last.pre)
                  /\ \A i \in 1..Len(last.pre) :
                        doc.items[i] =
                          << <<"id", last.pre[i].id>>, <<"text", last.pre[i].text>>,
                             <<"completed", last.pre[i].completed>>,
                             <<"createdAt", last.pre[i].createdAt>> >>
                  /\ parse(doc) = last.pre
                  /\ parse(doc) = tasks

\* a list of a pending and a completed task has been exported
C13_Witness ==
    /\ last.op = "export"
    /\ last.download # NoDownload
    /\ Len(last.pre) = 2
    /\ \E i, j \in 1..2 : last.pre[i].completed /\ ~last.pre[j].completed

\* C14: a toggle of an id of the list flips the completed flag of one task
\* with that id and leaves its other fields, every other task, the order
\* and the length alone; its notification is the celebration when the task
\* became completed and the "marked incomplete" one when it did not.  A
\* toggle of an id that no task has changes neither the list nor the
\* stored value and shows nothing.
C14_ToggleFlipsOnlyTheFlag ==
    last.op = "toggle" =>
        IF \A i \in 1..Len(last.pre) : last.pre[i].id # last.id
        THEN /\ tasks = last.pre
             /\ storage = last.preStorage
             /\ last.notes = <<>>
             /\ last.persisted = "none"
        ELSE \E i \in 1..Len(last.pre) :
                /\ last.pre[i].id = last.id
                /\ Len(tasks) = Len(last.pre)
                /\ tasks[i].completed = ~last.pre[i].completed
                /\ tasks[i].id = last.pre[i].id
                /\ tasks[i].text = last.pre[i].text
                /\ tasks[i].createdAt = last.pre[i].createdAt
                /\ \A j \in 1..Len(tasks) : j # i => tasks[j] = last.pre[j]
                /\ last.notes # <<>>
                /\ last.notes[Len(last.notes)].message =
                      IF tasks[i].completed THEN "great-job" ELSE "marked-incomplete"
                /\ \A k \in 1..(Len(last.notes) - 1) :
                      last.notes[k].message \notin {"great-job", "marked-incomplete"}

\* the second of two tasks has been toggled back to pending
C14_Witness ==
    /\ last.op = "toggle"
    /\ Len(tasks) = 2
    /\ tasks[2].id = last.id
    /\ tasks[1].id # last.id
    /\ last.pre[2].completed
    /\ last.notes[Len(last.notes)].message = "marked-incomplete"

\* the list ts without its i-th element
without(ts, i) == SubSeq(ts, 1, i - 1) \o SubSeq(ts, i + 1, Len(ts))

\* C15: a confirmed delete of an id of the list removes one task, which
\* carries that id, and leaves the other tasks as they were and in their
\* order; the list is always in the order in which its tasks were created
\* (ids are the creation times).
C15_DeleteRemovesOnlyThatTask ==
    /\ ( /\ last.op = "delete"
         /\ last.confirmed
         /\ \E i \in 1..Len(last.pre) : last.pre[i].id = last.id ) =>
          \E i \in 1..Len(last.pre) :
             /\ last.pre[i].id = last.id
             /\ tasks = without(last.pre, i)
    /\ \A i, j \in 1..Len(tasks) : i < j => tasks[i].id <= tasks[j].id

\* C16: whatever the interleaving of handlers and counter callbacks, once
\* no callback is pending the three displayed counters are the statistics
\* of the list.
C16_CountersConverge ==
    (phase = "ready" /\ timers = <<>>) =>
        LET st == statistics(tasks)
        IN  /\ dom.total = ToString(st.total)
            /\ dom.completed = ToString(st.completed)
            /\ dom.pending = ToString(st.pending)

\* C17: a delete whose prompt was declined leaves the list, the stored
\* value and the rendered rows as they were and neither persists, renders
\* nor notifies; a task leaves the list only through a delete whose prompt
\* was accepted (last.pre is the list before the most recent handler, and
\* only handlers change the list).
C17_DeclinedDeleteChangesNothing ==
    /\ (last.op = "delete" /\ ~last.confirmed) =>
          /\ tasks = last.pre
          /\ storage = last.preStorage
          /\ dom.rows = [i \in 1..Len(last.pre) |-> createTaskElement(last.pre[i])]
          /\ last.persisted = "none"
          /\ ~last.rendered
          /\ last.notes = <<>>
    /\ (\E i \in 1..Len(last.pre) : \A j \in 1..Len(tasks) : tasks[j].id # last.pre[i].id) =>
          (last.op = "delete" /\ last.confirmed)
    /\ Len(tasks) < Len(last.pre) => (last.op = "delete" /\ last.confirmed)

\* the delete of a task of a list of two has been declined
C17_Witness ==
    /\ last.op = "delete"
    /\ ~last.confirmed
    /\ Len(tasks) = 2
    /\ \E i \in 1..2 : tasks[i].id = last.id

\* C18: from the initial render on, the placeholder is shown and the list
\* container hidden exactly when the list is empty; otherwise there is one
\* row per task, in list order, with the task's id, its escaped text and a
\* checkbox that is checked exactly when the task is completed.
C18_ViewAgreesWithList ==
    phase = "ready" =>
        /\ dom.emptyState = "block" <=> tasks = <<>>
        /\ dom.tasksListContainer = "none" <=> tasks = <<>>
        /\ dom.emptyState \in {"block", "none"}
        /\ dom.tasksListContainer \in {"block", "none"}
        /\ Len(dom.rows) = Len(tasks)
        /\ \A i \in 1..Len(tasks) :
              /\ dom.rows[i].id = tasks[i].id
              /\ dom.rows[i].checked = tasks[i].completed
              /\ dom.rows[i].html = escaped[tasks[i].text]
              /\ dom.rows[i].className =
                    IF tasks[i].completed THEN "task-item completed" ELSE "task-item "

\* the list of a completed and a pending task has been emptied by two
\* deletes, and the placeholder is back
C18_Witness ==
    /\ last.op = "delete"
    /\ last.rendered
    /\ tasks = <<>>
    /\ Len(last.pre) = 1
    /\ last.pre[1].completed
    /\ hist.expected = 0

\* C19: in every state the page can be in, rendering twice in a row gives
\* the same rows and the same visibility of the placeholder and the list
\* container as rendering once, and, once the pending callbacks have
\* fired, the same three counters.
C19_RenderIdempotent ==
    phase = "ready" =>
        LET once == renderAllTasks(tasks, dom, timers)
            twice == renderAllTasks(tasks, once.dom, once.timers)
            shownOnce == fireAll(once.dom, once.timers)
            shownTwice == fireAll(twice.dom, twice.timers)
        IN  /\ twice.dom.rows = once.dom.rows
            /\ twice.dom.emptyState = once.dom.emptyState
            /\ twice.dom.tasksListContainer = once.dom.tasksListContainer
            /\ shownTwice = shownOnce

\* a confirmed delete of an id that no task has: the unchanged list of
\* two tasks has been rendered again
C19_Witness ==
    /\ last.op = "delete"
    /\ last.confirmed
    /\ last.rendered
    /\ tasks = last.pre
    /\ Len(tasks) = 2
    /\ dom = renderAllTasks(tasks, dom, timers).dom

\* the list has been rendered again while callbacks of the render before
\* were pending
C19_RenderedWhilePending ==
    /\ last.op = "delete"
    /\ last.confirmed
    /\ last.rendered
    /\ tasks = last.pre
    /\ tasks # <<>>
    /\ timers # <<>>

====
